---- MODULE Spec2Model ----
(***************************************************************************)
(* Model of CarbonExplorer's battery sizing and carbon-aware scheduling.   *)
(*                                                                         *)
(* Energies and powers are fixed-point integers: one model unit is         *)
(* 1/Scale MWh (MW).  Scale is a power of two, so every halving that the   *)
(* bisections perform on the inputs used here is exact, as it is in the    *)
(* program's binary floating point.                                        *)
(***************************************************************************)
EXTENDS Integers, Sequences, FiniteSets, TLC

VARIABLES
    trace,        \* capacity sizing: the input series, a sequence of [dc, ren]
    max_bsize,    \* capacity sizing: the search bound
    pc,           \* capacity sizing: position of the control flow
    l, u,         \* locals of _calculate_247_battery_capacity_b1_bin
    lower_bound,  \* locals of _calculate_247_battery_capacity_b1_hybrid
    upper_bound,
    b,            \* the live Battery of _calculate_247_battery_capacity_b1_seq
    i,            \* loop index of the sequential pass (next hour, 1-based)
    battery_cap,  \* running maximum of the sequential pass
    res_bin,      \* value returned by the binary search
    res_hyb,      \* value returned by the hybrid search
    res_seq,      \* value returned by the sequential pass
    model,        \* battery calls: the class under call, "Battery" or "Battery2"
    bat1,         \* battery calls: a Battery object
    bat2,         \* battery calls: a Battery2 object
    call,         \* battery calls: the last call, its argument, the load
                  \* before it and the value it returned
    method,       \* scheduling: the function called
    write_through,\* scheduling: whether an assignment through
                  \* df["avg_dc_power_mw"].iloc[k] reaches the frame df
    day,          \* scheduling: daily_df, a sequence of [dc, ren, ci]
    ratio,        \* scheduling: flexible_workload_ratio, in percent
    max_capacity, \* scheduling: max_capacity
    cpc,          \* scheduling: position of the control flow
    left, right,  \* scheduling: bounds of the bisection
    threshold,    \* scheduling: threshold of the exponential phase
    prev_threshold,
    final_threshold,
    round,        \* scheduling: refinement steps done by the hybrid search
    test_df,      \* scheduling: demand column of the last trial frame
    best_df,      \* scheduling: demand column of best_df
    best_carbon_reduction,
    moved,        \* scheduling: workload moved by the last pour
    out,          \* scheduling: demand column appended to balanced_df
    tried,        \* scheduling: history of the bisection trials, the cutoff
                  \* and the workload moved of each
    ab_pc,        \* apply_battery: position of the control flow
    battery_capacity, \* apply_battery: the capacity passed in
    df_dc_pow,    \* apply_battery: the avg_dc_power_mw column passed in
    df_ren,       \* apply_battery: the renewable series object passed in
    ren_before,   \* apply_battery: the values df_ren held at the call
    ab_b,         \* apply_battery: b, the Battery2
    ab_i, ab_j,   \* apply_battery: the loop indices i and j
    gap,          \* apply_battery: gap of hour i
    discharged_amount,
    tot_non_ren_mw,
    hours_done,   \* apply_battery: per hour, the gap and the amount the
                  \* battery delivered in it
    ab_ret,       \* apply_battery: the pair returned
    rle_pc,       \* Battery2 with any coefficients: position of the caller
    rle_args,     \* the arguments of Battery2(...)
    rle_b,        \* the Battery2 object
    rle_input,    \* input_load of find_and_init_capacity
    rle_new_capacity, \* new_capacity of find_and_init_capacity
    rle_calls,    \* number of charge and discharge calls made
    rle_last      \* the last charge or discharge call: its name, the
                  \* denominator of its rate limit and the limit used

capVars == <<trace, max_bsize, pc, l, u, lower_bound, upper_bound, b, i,
             battery_cap, res_bin, res_hyb, res_seq>>

batVars == <<model, bat1, bat2, call>>

casVars == <<method, write_through, day, ratio, max_capacity, cpc, left, right,
             threshold, prev_threshold, final_threshold, round, test_df,
             best_df, best_carbon_reduction, moved, out, tried>>

applyVars == <<ab_pc, battery_capacity, df_dc_pow, df_ren, ren_before, ab_b,
               ab_i, ab_j, gap, discharged_amount, tot_non_ren_mw, hours_done,
               ab_ret>>

rleVars == <<rle_pc, rle_args, rle_b, rle_input, rle_new_capacity,
             rle_calls, rle_last>>

vars == <<capVars, batVars, casVars, applyVars, rleVars>>

\* What the capacity sizing leaves alone.
notCapVars == <<batVars, casVars, applyVars, rleVars>>

\* What the battery calls leave alone.
notBatVars == <<capVars, casVars, applyVars, rleVars>>

\* What the scheduling leaves alone.
notCasVars == <<capVars, batVars, applyVars, rleVars>>

\* What apply_battery leaves alone.
notApplyVars == <<capVars, batVars, casVars, rleVars>>

\* What the calls on a Battery2 with any coefficients leave alone.
notRleVars == <<capVars, batVars, casVars, applyVars>>

----------------------------------------------------------------------------
(* Numbers *)

\* Model units per MWh.
Scale == 2^14

\* points_per_hour of _sim_battery_247.
points_per_hour == 60

\* The 0.0001 of "actual_discharge < -net_load - 0.0001", in model units,
\* rounded down.  Scale/10000 is not an integer, so for an integer x of model
\* units  x > 0.0001 MWh  exactly when  x > Tolerance.
Tolerance == Scale \div 10000

\* The 0.1 of "while u - l > 0.1", in model units, rounded down.  Scale/10 is
\* not an integer, so  x > 0.1 MWh  exactly when  x > Resolution.
Resolution == Scale \div 10

MW(n) == n * Scale

Max(x, y) == IF x > y THEN x ELSE y
Min(x, y) == IF x < y THEN x ELSE y

\* Rest(v) with v evaluated first: sequential composition of two computations.
Then(Rest(_), v) == CHOOSE r \in { Rest(w) : w \in {v} } : TRUE

\* A returned value: a number, or numpy's nan.
Num(x) == [kind |-> "num", val |-> x]
NaN == [kind |-> "nan", val |-> 0]
NotRun == [kind |-> "none", val |-> 0]

----------------------------------------------------------------------------
(* battery.py: class Battery (the Ideal model) *)

\* Battery(capacity, current_load)
Battery(capacity, current_load) ==
    [capacity |-> capacity, current_load |-> current_load]

\* Battery.charge wrapping an overfull load around instead of clamping it.
charge_Wrap(bat, input_load) ==
    LET ld == bat.current_load + input_load
    IN  [bat EXCEPT !.current_load = IF ld > bat.capacity THEN ld - bat.capacity ELSE ld]

\* Battery.charge without the clamp to the capacity.
charge_NoClamp(bat, input_load) ==
    [bat EXCEPT !.current_load = bat.current_load + input_load]

\* Battery.charge: the battery after the call (the method returns its load).
charge(bat, input_load) ==
    LET ld == bat.current_load + input_load
    IN  [bat EXCEPT !.current_load = IF ld > bat.capacity THEN bat.capacity ELSE ld]

\* Battery.discharge returning the requested amount also when the load is short.
discharge_ReturnsRequest(bat, output_load) ==
    LET ld == bat.current_load - output_load
    IN  [bat |-> [bat EXCEPT !.current_load = IF ld < 0 THEN 0 ELSE ld],
         ret |-> output_load]

\* Battery.discharge: the battery after the call and the returned amount.
discharge(bat, output_load) ==
    LET ld == bat.current_load - output_load
    IN  IF ld < 0
        THEN [bat |-> [bat EXCEPT !.current_load = 0], ret |-> output_load + ld]
        ELSE [bat |-> [bat EXCEPT !.current_load = ld], ret |-> output_load]

\* Battery.is_full
is_full(bat) == bat.capacity = bat.current_load

\* A variant of find_and_init_capacity that replaces the capacity by the
\* amount instead of adding the amount to it.
find_and_init_capacity_Reset(bat, input_load) ==
    [bat EXCEPT !.capacity = input_load]

\* Battery.find_and_init_capacity
find_and_init_capacity(bat, input_load) ==
    [bat EXCEPT !.capacity = bat.capacity + input_load]

----------------------------------------------------------------------------
(* battery.py: class Battery2 (the Rate-Limited-Efficiency model)

   A Battery2 holds energies in hundredths of a MWh and its coefficients in
   hundredths.  The step duration T_u is 1/t_den hours.  The program computes
   in floating point; here a rate is an exact fraction n/d, compared by
   cross-multiplication, and a value that is stored or returned is the exact
   result rounded to a whole unit in either direction. *)

\* Units of a Battery2 per MWh.
PerMWh == 10 * 10

\* The 0.1 MWh increment of Battery2.find_and_init_capacity.
Increment == PerMWh \div 10

\* The keyword defaults of Battery2.__init__, in hundredths.
eff_c == 97
eff_d == 104
c_lim == 3
d_lim == 3
upper_u == -4
upper_v == 1
lower_u == 1
lower_v == 0

\* Battery2(capacity, current_load) with the default coefficients.
Battery2(capacity, current_load) ==
    [capacity |-> capacity, current_load |-> current_load,
     eff_c |-> eff_c, eff_d |-> eff_d, c_lim |-> c_lim, d_lim |-> d_lim,
     upper_lim_u |-> upper_u, upper_lim_v |-> upper_v,
     lower_lim_u |-> lower_u, lower_lim_v |-> lower_v]

\* Fractions; the comparisons take a positive denominator.
Frac(n, d) == [n |-> n, d |-> d]
\* The same fraction with a positive denominator (d is not 0).
Norm(x) == IF x.d < 0 THEN Frac(-x.n, -x.d) ELSE x
FracLess(x, y) == x.n * y.d < y.n * x.d
FracMin(x, y) == IF FracLess(y, x) THEN y ELSE x
Floor(x) == x.n \div x.d
Ceil(x) == -((-x.n) \div x.d)
\* The whole units a stored or returned value may round to.
Rounded(x) == {Floor(x), Ceil(x)}

\* Battery2.calc_max_charge(T_u), T_u = 1/t_den:
\*   min(capacity / eff_c * c_lim,
\*       (upper_lim_v * capacity - current_load) / (eff_c * T_u - upper_lim_u))
calc_max_charge(bt, t_den) ==
    FracMin(Frac(bt.capacity * 100 * bt.c_lim, bt.eff_c),
            Norm(Frac((bt.upper_lim_v * bt.capacity - bt.current_load)
                          * 100 * t_den,
                      bt.eff_c - bt.upper_lim_u * t_den)))

\* Battery2.calc_max_discharge(T_u):
\*   min(capacity / eff_d * d_lim,
\*       (current_load - lower_lim_v * capacity) / (lower_lim_u + eff_d * T_u))
calc_max_discharge(bt, t_den) ==
    FracMin(Frac(bt.capacity * 100 * bt.d_lim, bt.eff_d),
            Norm(Frac((bt.current_load - bt.lower_lim_v * bt.capacity)
                          * 100 * t_den,
                      bt.lower_lim_u * t_den + bt.eff_d)))

\* Battery2.charge(input_load, T_u): the batteries the call may leave.
charge2(bt, input_load, t_den) ==
    LET p == FracMin(calc_max_charge(bt, t_den), Frac(input_load, 1))
        added == Frac(p.n * bt.eff_c, p.d * 100 * t_den)
    IN  {[bt EXCEPT !.current_load = bt.current_load + a] : a \in Rounded(added)}

\* Battery2.discharge(output_load, T_u): the (battery, returned amount) pairs
\* the call may leave.  The energy drawn and the amount returned are both
\* multiples of min(max_discharge, output_load) and round the same way.
discharge2(bt, output_load, t_den) ==
    LET max_discharge == calc_max_discharge(bt, t_den)
        p == FracMin(max_discharge, Frac(output_load, 1))
        drawn == Frac(p.n * bt.eff_d, p.d * 100 * t_den)
        delivered == IF FracLess(max_discharge, Frac(output_load, 1))
                     THEN Frac(max_discharge.n, max_discharge.d * t_den)
                     ELSE Frac(output_load, t_den)
    IN  {[bat |-> [bt EXCEPT !.current_load = bt.current_load - Floor(drawn)],
          ret |-> Floor(delivered)],
         [bat |-> [bt EXCEPT !.current_load = bt.current_load - Ceil(drawn)],
          ret |-> Ceil(delivered)]}

\* Battery2.is_full
is_full2(bt) == bt.capacity = bt.current_load

\* The loop of Battery2.find_and_init_capacity: the capacity it ends with.
\* power_lim < input_load is compared by cross-multiplication.
RECURSIVE GrowUntil(_, _, _)
GrowUntil(bt, new_capacity, input_load) ==
    IF (new_capacity - bt.lower_lim_v * bt.capacity) * 100
           < input_load * (bt.lower_lim_u + bt.eff_d)
    THEN GrowUntil([bt EXCEPT !.capacity = bt.capacity + Increment],
                   new_capacity + Increment, input_load)
    ELSE bt

\* Battery2.find_and_init_capacity(input_load): the batteries the call may
\* leave.
find_and_init_capacity2(bt, input_load) ==
    {GrowUntil([bt EXCEPT !.capacity = bt.capacity + g], g, input_load) :
        g \in Rounded(Frac(input_load * bt.eff_d, 100))}

----------------------------------------------------------------------------
(* battery_methods/binary_search.py: _sim_battery_247 with a Battery *)

\* One iteration of the inner loop "for j in range(points_per_hour)" on the
\* pair st = (battery, actual_discharge).
MicroStep(st, net_load) ==
    IF net_load > 0
    THEN [bat |-> charge(st.bat, net_load), actual_discharge |-> st.actual_discharge]
    ELSE LET d == discharge(st.bat, -net_load)
         IN  [bat |-> d.bat, actual_discharge |-> st.actual_discharge + d.ret]

\* The iterations j0 .. j1-1 of the inner loop, in order.  The range is split
\* in two halves run one after the other (the first half is evaluated to a
\* value before the second starts), which keeps the evaluation shallow.
RECURSIVE MicroRange(_, _, _, _)
MicroRange(st, net_load, j0, j1) ==
    IF j1 <= j0 THEN st
    ELSE IF j1 = j0 + 1 THEN MicroStep(st, net_load)
    ELSE LET jm == (j0 + j1) \div 2
         IN  Then(LAMBDA half : MicroRange(half, net_load, jm, j1),
                  MicroRange(st, net_load, j0, jm))

\* The whole inner loop of one hour, started with actual_discharge = 0.
MicroSteps(bat, net_load) ==
    MicroRange([bat |-> bat, actual_discharge |-> 0], net_load, 0, points_per_hour)

\* The outer loop from hour k on (1-based), with the early "return False".
RECURSIVE SimFrom(_, _, _)
SimFrom(tr, k, bat) ==
    IF k > Len(tr)
    THEN TRUE
    ELSE LET net_load == tr[k].ren - tr[k].dc
         IN  Then(LAMBDA m :
                    IF net_load < 0 /\ (-net_load) - m.actual_discharge > Tolerance
                    THEN FALSE
                    ELSE SimFrom(tr, k + 1, m.bat),
                  MicroSteps(bat, net_load))

\* _sim_battery_247(df_ren, df_dc_pow, b)
sim_battery_247(tr, bat) == SimFrom(tr, 1, bat)

\* The feasibility oracle on a battery of capacity c that starts fully charged.
Feasible(tr, c) == sim_battery_247(tr, Battery(c, c))

----------------------------------------------------------------------------
(* Inputs of the capacity sizing *)

\* Longest enumerated trace.
MaxHours == 3

\* One hour of the series: data-centre power and renewable supply.
Sample(dc, ren) == [dc |-> dc, ren |-> ren]

\* The hours the enumerated traces are built from: a deficit of 1 MW, a
\* surplus of 1 MW, a balanced hour, and a deficit of one model unit, which is
\* below the oracle's tolerance.
Samples ==
    { Sample(MW(1), 0), Sample(0, MW(1)), Sample(MW(1), MW(1)), Sample(1, 0) }

SmallTraces == UNION { [1..n -> Samples] : n \in 1..MaxHours }

\* Search bounds tried on the enumerated traces.
SmallBounds == { 0, MW(1), MW(61), MW(200) }

\* Scenario A: 24 identical hours with demand = renewable = 100.
ScenarioA == [h \in 1..24 |-> Sample(MW(100), MW(100))]

\* Scenario B: hours 0-11 demand 50 / renewable 0, hours 12-23 demand 50 /
\* renewable 200.
ScenarioB ==
    [h \in 1..24 |-> IF h <= 12 THEN Sample(MW(50), 0) ELSE Sample(MW(50), MW(200))]

\* Bounds tried on the scenarios: the dispatcher's default max_bsize=1000 and
\* one that does not bind.
ScenarioBounds == { MW(1000), MW(40000) }

----------------------------------------------------------------------------
(* Capacity sizing: the three strategies, called one after the other on the
   same series.  battery_methods/binary_search.py:
   _calculate_247_battery_capacity_b1_bin *)

\* The last call: its name and argument and, for a Battery, the load before
\* it and the value it returned.
NoCall == [op |-> "none", arg |-> 0, pre |-> 0, ret |-> 0]
Call(op, arg, pre, ret) == [op |-> op, arg |-> arg, pre |-> pre, ret |-> ret]

\* The battery calls are not in use.
BatParked ==
    /\ model = "none"
    /\ bat1 = Battery(0, 0)
    /\ bat2 = Battery2(0, 0)
    /\ call = NoCall

\* No charge or discharge call has been made.
NoLimit == [op |-> "none", den |-> 1, limit |-> 0]

\* The Battery2 with any coefficients is not in use.
RleParked ==
    /\ rle_pc = "parked"
    /\ rle_args = Battery2(0, 0)
    /\ rle_b = Battery2(0, 0)
    /\ rle_input = 0 /\ rle_new_capacity = 0 /\ rle_calls = 0
    /\ rle_last = NoLimit

\* apply_battery is not in use.
ApplyParked ==
    /\ ab_pc = "parked" /\ battery_capacity = 0
    /\ df_dc_pow = <<>> /\ df_ren = <<>> /\ ren_before = <<>>
    /\ ab_b = [capacity |-> 0, current_load |-> 0]
    /\ ab_i = 0 /\ ab_j = 0 /\ gap = 0
    /\ discharged_amount = 0 /\ tot_non_ren_mw = 0
    /\ hours_done = <<>> /\ ab_ret = <<>>

\* The scheduling is not in use.
CasParked ==
    /\ method = "none" /\ write_through = FALSE /\ day = <<>>
    /\ ratio = 0 /\ max_capacity = 0 /\ cpc = "parked"
    /\ left = 0 /\ right = 0
    /\ threshold = 0 /\ prev_threshold = 0 /\ final_threshold = 0 /\ round = 0
    /\ test_df = <<>> /\ best_df = <<>> /\ best_carbon_reduction = 0
    /\ moved = 0 /\ out = <<>> /\ tried = <<>>

\* The capacity sizing is not in use.
CapParked ==
    /\ trace = <<>> /\ max_bsize = 0 /\ pc = "parked"
    /\ l = 0 /\ u = 0 /\ lower_bound = 0 /\ upper_bound = 0
    /\ b = Battery(0, 0) /\ i = 1 /\ battery_cap = 0
    /\ res_bin = NotRun /\ res_hyb = NotRun /\ res_seq = NotRun

CapInit ==
    /\ \/ trace \in SmallTraces /\ max_bsize \in SmallBounds
       \/ trace \in {ScenarioA, ScenarioB} /\ max_bsize \in ScenarioBounds
    /\ pc = "bin_start"
    /\ l = 0 /\ u = 0
    /\ lower_bound = 0 /\ upper_bound = 0
    /\ b = Battery(0, 0)
    /\ i = 1
    /\ battery_cap = 0
    /\ res_bin = NotRun /\ res_hyb = NotRun /\ res_seq = NotRun
    /\ BatParked
    /\ CasParked
    /\ ApplyParked
    /\ RleParked

\* _calculate_247_battery_capacity_b1_bin, up to the loop.
BinStart ==
    /\ pc = "bin_start"
    /\ IF sim_battery_247(trace, Battery(0, 0))
       THEN /\ res_bin' = Num(0)
            /\ pc' = "hyb_start"
            /\ UNCHANGED <<l, u>>
       ELSE /\ l' = 0
            /\ u' = max_bsize
            /\ pc' = "bin_loop"
            /\ UNCHANGED res_bin
    /\ UNCHANGED <<trace, max_bsize, lower_bound, upper_bound, b, i,
                   battery_cap, res_hyb, res_seq>>
    /\ UNCHANGED notCapVars

\* One iteration of "while u - l > 0.1".
BinStepBody ==
    LET med == (u + l) \div 2
    IN  IF Feasible(trace, med)
        THEN u' = med /\ UNCHANGED l
        ELSE l' = med /\ UNCHANGED u

BinStep ==
    /\ pc = "bin_loop"
    /\ u - l > Resolution
    /\ BinStepBody
    /\ UNCHANGED <<trace, max_bsize, pc, lower_bound, upper_bound, b, i,
                   battery_cap, res_bin, res_hyb, res_seq>>
    /\ UNCHANGED notCapVars

\* The value returned after the loop without the test "u == max_bsize".
BinResult_NoCheck == Num(u)

\* The value returned after the loop.
BinResult == IF u = max_bsize THEN NaN ELSE Num(u)

BinReturn ==
    /\ pc = "bin_loop"
    /\ ~(u - l > Resolution)
    /\ res_bin' = BinResult
    /\ pc' = "hyb_start"
    /\ UNCHANGED <<trace, max_bsize, l, u, lower_bound, upper_bound, b, i,
                   battery_cap, res_hyb, res_seq>>
    /\ UNCHANGED notCapVars

----------------------------------------------------------------------------
(* capacity_calculations/hybrid_search.py:
   _calculate_247_battery_capacity_b1_hybrid *)

\* Up to the exponential loop.
HybStart ==
    /\ pc = "hyb_start"
    /\ IF sim_battery_247(trace, Battery(0, 0))
       THEN /\ res_hyb' = Num(0)
            /\ pc' = "seq_loop"
            /\ UNCHANGED <<lower_bound, upper_bound>>
       ELSE /\ lower_bound' = 0
            /\ upper_bound' = MW(2)
            /\ pc' = "hyb_exp"
            /\ UNCHANGED res_hyb
    /\ UNCHANGED <<trace, max_bsize, l, u, b, i, battery_cap, res_bin, res_seq>>
    /\ UNCHANGED notCapVars

\* The condition of the exponential loop.
HybExpCond == upper_bound < max_bsize /\ ~Feasible(trace, upper_bound)

\* One iteration of the exponential loop.
HybExpStep ==
    /\ pc = "hyb_exp"
    /\ HybExpCond
    /\ lower_bound' = upper_bound
    /\ upper_bound' = upper_bound * 2
    /\ UNCHANGED <<trace, max_bsize, pc, l, u, b, i, battery_cap,
                   res_bin, res_hyb, res_seq>>
    /\ UNCHANGED notCapVars

\* upper_bound after "if upper_bound > max_bsize: upper_bound = max_bsize".
HybCapped == IF upper_bound > max_bsize THEN max_bsize ELSE upper_bound

\* After the exponential loop: the cap and the test of the capped bound.
HybCap ==
    /\ pc = "hyb_exp"
    /\ ~HybExpCond
    /\ upper_bound' = HybCapped
    /\ IF ~Feasible(trace, HybCapped)
       THEN res_hyb' = NaN /\ pc' = "seq_loop"
       ELSE pc' = "hyb_bin" /\ UNCHANGED res_hyb
    /\ UNCHANGED <<trace, max_bsize, l, u, lower_bound, b, i, battery_cap,
                   res_bin, res_seq>>
    /\ UNCHANGED notCapVars

\* One iteration of "while upper_bound - lower_bound > 0.1".
HybBinStepBody ==
    LET mid == (lower_bound + upper_bound) \div 2
    IN  IF Feasible(trace, mid)
        THEN upper_bound' = mid /\ UNCHANGED lower_bound
        ELSE lower_bound' = mid /\ UNCHANGED upper_bound

HybBinStep ==
    /\ pc = "hyb_bin"
    /\ upper_bound - lower_bound > Resolution
    /\ HybBinStepBody
    /\ UNCHANGED <<trace, max_bsize, pc, l, u, b, i, battery_cap,
                   res_bin, res_hyb, res_seq>>
    /\ UNCHANGED notCapVars

HybReturn ==
    /\ pc = "hyb_bin"
    /\ ~(upper_bound - lower_bound > Resolution)
    /\ res_hyb' = Num(upper_bound)
    /\ pc' = "seq_loop"
    /\ UNCHANGED <<trace, max_bsize, l, u, lower_bound, upper_bound, b, i,
                   battery_cap, res_bin, res_seq>>
    /\ UNCHANGED notCapVars

----------------------------------------------------------------------------
(* capacity_calculations/sequential_search.py:
   _calculate_247_battery_capacity_b1_seq *)

\* The live battery after the body of the loop on one hour.
SeqBattery(bat, dc, ren) ==
    IF dc > ren
    THEN IF bat.capacity = 0
         THEN find_and_init_capacity(bat, dc - ren)
         ELSE IF bat.current_load = 0
              THEN find_and_init_capacity(bat, dc - ren)
              ELSE LET d == discharge(bat, dc - ren)
                   IN  IF d.ret < dc - ren
                       THEN find_and_init_capacity(d.bat, (dc - ren) - d.ret)
                       ELSE d.bat
    ELSE IF bat.capacity > 0
         THEN charge(bat, ren - dc)
         ELSE IF is_full(bat) THEN Battery(0, 0) ELSE bat

\* battery_cap after "if b.capacity > 0 and battery_cap != np.nan" (the
\* comparison with nan is always true).
SeqCap(cap, bat) == IF bat.capacity > 0 THEN Max(cap, bat.capacity) ELSE cap

\* One iteration of the loop over the hours.
SeqStep ==
    /\ pc = "seq_loop"
    /\ i <= Len(trace)
    /\ b' = SeqBattery(b, trace[i].dc, trace[i].ren)
    /\ battery_cap' = SeqCap(battery_cap, b')
    /\ i' = i + 1
    /\ UNCHANGED <<trace, max_bsize, pc, l, u, lower_bound, upper_bound,
                   res_bin, res_hyb, res_seq>>
    /\ UNCHANGED notCapVars

SeqReturn ==
    /\ pc = "seq_loop"
    /\ i > Len(trace)
    /\ res_seq' = Num(battery_cap)
    /\ pc' = "done"
    /\ UNCHANGED <<trace, max_bsize, l, u, lower_bound, upper_bound, b, i,
                   battery_cap, res_bin, res_hyb>>
    /\ UNCHANGED notCapVars

CapNext ==
    \/ BinStart \/ BinStep \/ BinReturn
    \/ HybStart \/ HybExpStep \/ HybCap \/ HybBinStep \/ HybReturn
    \/ SeqStep \/ SeqReturn

----------------------------------------------------------------------------
(* Calls on one battery object, in any order and with any amounts *)

\* Largest capacity of the enumerated Battery objects, and the capacity a
\* grow-to-fit call may not exceed in the enumeration.
MaxBatCap == 4

\* Amounts passed to the calls on a Battery.
Amounts1 == 0..(MaxBatCap + 1)

\* Capacities of the enumerated Battery2 objects (0, 1 and 2.5 MWh), the
\* amounts passed to them, and the step durations 1/60 h and 1 h.
Capacities2 == {0, PerMWh, (5 * PerMWh) \div 2}
Loads2 == {0, 1, PerMWh \div 2, PerMWh - 1, PerMWh, (5 * PerMWh) \div 2}
Amounts2 == {0, PerMWh \div 2, 10 * PerMWh}
Durations == {60, 1}

\* The capacity in MWh a Battery2 may not exceed in the enumeration.
MaxBat2MWh == 3

BatInit ==
    /\ model \in {"Battery", "Battery2"}
    /\ IF model = "Battery"
       THEN /\ \E c \in 0..MaxBatCap : \E ld \in 0..c : bat1 = Battery(c, ld)
            /\ bat2 = Battery2(0, 0)
       ELSE /\ bat1 = Battery(0, 0)
            /\ \E c \in Capacities2 : \E ld \in {x \in Loads2 : x <= c} :
                  bat2 = Battery2(c, ld)
    /\ call = NoCall
    /\ CapParked
    /\ CasParked
    /\ ApplyParked
    /\ RleParked

Charge1 ==
    /\ model = "Battery"
    /\ \E x \in Amounts1 :
          /\ bat1' = charge(bat1, x)
          /\ call' = Call("charge", x, bat1.current_load, bat1'.current_load)
    /\ UNCHANGED <<model, bat2>>
    /\ UNCHANGED notBatVars

Discharge1 ==
    /\ model = "Battery"
    /\ \E x \in Amounts1 :
          LET d == discharge(bat1, x)
          IN  /\ bat1' = d.bat
              /\ call' = Call("discharge", x, bat1.current_load, d.ret)
    /\ UNCHANGED <<model, bat2>>
    /\ UNCHANGED notBatVars

FindAndInit1 ==
    /\ model = "Battery"
    /\ \E x \in Amounts1 :
          /\ bat1.capacity + x <= MaxBatCap
          /\ bat1' = find_and_init_capacity(bat1, x)
          /\ call' = Call("find_and_init_capacity", x, bat1.current_load, 0)
    /\ UNCHANGED <<model, bat2>>
    /\ UNCHANGED notBatVars

Charge2 ==
    /\ model = "Battery2"
    /\ \E x \in Amounts2, t_den \in Durations :
          /\ bat2' \in charge2(bat2, x, t_den)
          /\ call' = Call("charge", x, 0, 0)
    /\ UNCHANGED <<model, bat1>>
    /\ UNCHANGED notBatVars

Discharge2 ==
    /\ model = "Battery2"
    /\ \E x \in Amounts2, t_den \in Durations :
          \E d \in discharge2(bat2, x, t_den) :
              /\ bat2' = d.bat
              /\ call' = Call("discharge", x, 0, 0)
    /\ UNCHANGED <<model, bat1>>
    /\ UNCHANGED notBatVars

FindAndInit2 ==
    /\ model = "Battery2"
    /\ \E x \in Amounts2 :
          \E nb \in find_and_init_capacity2(bat2, x) :
              /\ nb.capacity <= MaxBat2MWh * PerMWh
              /\ bat2' = nb
              /\ call' = Call("find_and_init_capacity", x, 0, 0)
    /\ UNCHANGED <<model, bat1>>
    /\ UNCHANGED notBatVars

BatNext ==
    \/ Charge1 \/ Discharge1 \/ FindAndInit1
    \/ Charge2 \/ Discharge2 \/ FindAndInit2

----------------------------------------------------------------------------
(* Carbon-aware scheduling: one day window of daily_df.

   Power is counted in units of 1/CasScale MW, carbon intensity thresholds
   in units of 1/CasScale of the intensity unit.  CasScale is a multiple of
   100 and of 10 * 2^8, so that ratio / 100 of a whole-MW demand, the 0.1
   steps and every halving of the searches below are exact. *)

CasScale == 100 * (2 ^ 7)

PowerMW(n) == n * CasScale

\* 0.1, the step of cas_binary and the width at which binary_cas_grid_mix
\* stops.
Tenth == CasScale \div 10

\* Number of refinement steps of the hybrid searches.
RefineRounds == 7

\* Hours of a day window (24 in the program).
DayLen == 3

RECURSIVE SumSeq(_)
SumSeq(s) == IF s = <<>> THEN 0 ELSE Head(s) + SumSeq(Tail(s))

Range(s) == { s[k] : k \in DOMAIN s }

\* The avg_dc_power_mw column of a frame.
Demand(df) == [j \in DOMAIN df |-> df[j].dc]

\* list.sort(key = second component, reverse = True): a stable sort, equal
\* keys keep their order.
RankDesc(s, k) ==
    Cardinality({ m \in DOMAIN s :
                    \/ s[m][2] > s[k][2]
                    \/ (s[m][2] = s[k][2] /\ m < k) }) + 1

SortDesc(s) ==
    [p \in DOMAIN s |-> s[CHOOSE k \in DOMAIN s : RankDesc(s, k) = p]]

\* list.sort(key = second component): stable, ascending.
RankAsc(s, k) ==
    Cardinality({ m \in DOMAIN s :
                    \/ s[m][2] < s[k][2]
                    \/ (s[m][2] = s[k][2] /\ m < k) }) + 1

SortAsc(s) ==
    [p \in DOMAIN s |-> s[CHOOSE k \in DOMAIN s : RankAsc(s, k) = p]]

\* The hour indices of a list of (index, key) pairs.
Indices(s) == [p \in DOMAIN s |-> s[p][1]]

\* list.index(e): the first position holding e.
IndexOf(s, e) ==
    CHOOSE p \in DOMAIN s : s[p] = e /\ \A q \in 1..(p - 1) : s[q] # e

\* A variant of MoveWorkload that moves the amount the other way.
MoveWorkload_Reversed(dc, from_idx, to_idx, amount_to_move) ==
    [dc EXCEPT ![from_idx] = @ + amount_to_move,
               ![to_idx] = @ - amount_to_move]

\* A variant of MoveWorkload that forgets the recipient.
MoveWorkload_DonorOnly(dc, from_idx, to_idx, amount_to_move) ==
    [dc EXCEPT ![from_idx] = @ - amount_to_move]

\* df["avg_dc_power_mw"].iloc[from_idx] -= amount_to_move
\* df["avg_dc_power_mw"].iloc[to_idx] += amount_to_move
\* The assignments go through the column selected from the frame; whether
\* they reach the frame is decided by the pandas build (write_through).
MoveWorkload(dc, from_idx, to_idx, amount_to_move) ==
    IF write_through
    THEN [dc EXCEPT ![from_idx] = @ - amount_to_move,
                    ![to_idx] = @ + amount_to_move]
    ELSE dc

\* max(0, avg_dc_power_mw - tot_renewable) of hour j.
Deficit(j) == Max(0, day[j].dc - day[j].ren)

\* renewable_deficit: (hour, deficit) pairs, largest deficit first.
renewable_deficit == SortDesc([j \in DOMAIN day |-> <<j, Deficit(j)>>])

max_deficit == CHOOSE d \in { Deficit(j) : j \in DOMAIN day } :
                   \A j \in DOMAIN day : Deficit(j) <= d

\* hourly_carbon: (hour, intensity) pairs, highest intensity first.
hourly_carbon == SortDesc([j \in DOMAIN day |-> <<j, day[j].ci>>])

min_carbon == CHOOSE c \in { day[j].ci : j \in DOMAIN day } :
                  \A j \in DOMAIN day : c <= day[j].ci

max_carbon == CHOOSE c \in { day[j].ci : j \in DOMAIN day } :
                  \A j \in DOMAIN day : day[j].ci <= c

\* sum(daily_df["avg_dc_power_mw"]) * flexible_workload_ratio / 100
total_movable == (SumSeq(Demand(day)) * ratio) \div 100

\* moved >= total_movable * 0.95
Accepted(m) == m * 100 >= total_movable * 95

\* cas_binary: the loop over surplus_hours for the donor from_idx.
RECURSIVE cas_binary_recipients(_, _, _, _)
cas_binary_recipients(st, from_idx, surplus_hours, k) ==
    IF k > Len(surplus_hours) THEN st
    ELSE LET to_idx == surplus_hours[k]
             available_space == Min(day[to_idx].ren - st.dc[to_idx],
                                    max_capacity - st.dc[to_idx])
             amount_to_move == Min(st.movable, available_space)
             nxt == [dc |-> MoveWorkload(st.dc, from_idx, to_idx,
                                         amount_to_move),
                     movable |-> st.movable - amount_to_move,
                     moved |-> st.moved + amount_to_move]
         IN  IF available_space <= 0 \/ amount_to_move <= 0
             THEN cas_binary_recipients(st, from_idx, surplus_hours, k + 1)
             ELSE IF nxt.movable <= 0
                  THEN nxt
                  ELSE cas_binary_recipients(nxt, from_idx, surplus_hours,
                                             k + 1)

\* cas_binary: the loop over deficit_hours.
RECURSIVE cas_binary_donors(_, _, _, _)
cas_binary_donors(st, deficit_hours, surplus_hours, k) ==
    IF k > Len(deficit_hours) \/ st.moved >= total_movable THEN st
    ELSE LET from_idx == deficit_hours[k]
             movable == Min((st.dc[from_idx] * ratio) \div 100,
                            total_movable - st.moved)
             r == cas_binary_recipients(
                      [dc |-> st.dc, movable |-> movable, moved |-> st.moved],
                      from_idx, surplus_hours, 1)
         IN  cas_binary_donors([dc |-> r.dc, moved |-> r.moved],
                               deficit_hours, surplus_hours, k + 1)

\* cas_binary: one trial of the threshold mid on a copy of daily_df.
cas_binary_trial(mid) ==
    LET deficit_hours ==
            Indices(SelectSeq(renewable_deficit, LAMBDA p : p[2] > mid))
        surplus_hours ==
            Indices(SortDesc(SelectSeq(
                [j \in DOMAIN day |-> <<j, day[j].ren - day[j].dc>>],
                LAMBDA p : p[1] \notin Range(deficit_hours))))
    IN  cas_binary_donors([dc |-> Demand(day), moved |-> 0],
                          deficit_hours, surplus_hours, 1)

\* A variant of grid_binary_recipients that gives the whole allowance to the
\* first destination hour without looking at its headroom.
grid_binary_recipients_NoCeiling(st, from_idx, to_hours, k) ==
    IF k > Len(to_hours) \/ st.movable <= 0 THEN st
    ELSE [dc |-> MoveWorkload(st.dc, from_idx, to_hours[k], st.movable),
          movable |-> 0,
          moved |-> st.moved + st.movable,
          carbon_reduced |-> st.carbon_reduced
              + st.movable * (day[from_idx].ci - day[to_hours[k]].ci)]

\* binary_cas_grid_mix: the loop over to_hours for the donor from_idx.
RECURSIVE grid_binary_recipients(_, _, _, _)
grid_binary_recipients(st, from_idx, to_hours, k) ==
    IF k > Len(to_hours) THEN st
    ELSE LET to_idx == to_hours[k]
             available_space == max_capacity - st.dc[to_idx]
             amount_to_move == Min(st.movable, available_space)
             carbon_delta == amount_to_move * (day[from_idx].ci - day[to_idx].ci)
             nxt == [dc |-> MoveWorkload(st.dc, from_idx, to_idx,
                                         amount_to_move),
                     movable |-> st.movable - amount_to_move,
                     moved |-> st.moved + amount_to_move,
                     carbon_reduced |-> st.carbon_reduced + carbon_delta]
         IN  IF available_space <= 0 \/ amount_to_move <= 0
             THEN grid_binary_recipients(st, from_idx, to_hours, k + 1)
             ELSE IF nxt.movable <= 0
                  THEN nxt
                  ELSE grid_binary_recipients(nxt, from_idx, to_hours, k + 1)

\* binary_cas_grid_mix: the loop over from_hours.
RECURSIVE grid_binary_donors(_, _, _, _)
grid_binary_donors(st, from_hours, to_hours, k) ==
    IF k > Len(from_hours) \/ st.moved >= total_movable THEN st
    ELSE LET from_idx == from_hours[k]
             movable == Min((st.dc[from_idx] * ratio) \div 100,
                            total_movable - st.moved)
             r == grid_binary_recipients(
                      [dc |-> st.dc, movable |-> movable, moved |-> st.moved,
                       carbon_reduced |-> st.carbon_reduced],
                      from_idx, to_hours, 1)
         IN  grid_binary_donors(
                 [dc |-> r.dc, moved |-> r.moved,
                  carbon_reduced |-> r.carbon_reduced],
                 from_hours, to_hours, k + 1)

\* binary_cas_grid_mix: one trial of the offset mid on a copy of daily_df.
grid_binary_trial(mid) ==
    LET carbon_threshold == PowerMW(min_carbon) + mid
        from_hours ==
            Indices(SelectSeq(hourly_carbon,
                              LAMBDA p : PowerMW(p[2]) > carbon_threshold))
        to_hours ==
            Indices(SortAsc(SelectSeq(hourly_carbon,
                              LAMBDA p : PowerMW(p[2]) <= carbon_threshold)))
    IN  grid_binary_donors(
            [dc |-> Demand(day), moved |-> 0, carbon_reduced |-> 0],
            from_hours, to_hours, 1)

\* cas_hybrid: workload above a threshold, summed over renewable_deficit.
RECURSIVE cas_hybrid_movable(_, _)
cas_hybrid_movable(thr, k) ==
    IF k > Len(renewable_deficit) THEN 0
    ELSE (IF renewable_deficit[k][2] > thr
          THEN renewable_deficit[k][2] - thr ELSE 0)
         + cas_hybrid_movable(thr, k + 1)

\* hybrid_cas_grid_mix, exponential phase: the load counted for an hour
\* above the threshold is the load of the first hour of hourly_carbon with
\* the same intensity.
RECURSIVE grid_hybrid_exp_movable(_, _)
grid_hybrid_exp_movable(thr, k) ==
    IF k > Len(hourly_carbon) THEN 0
    ELSE (IF PowerMW(hourly_carbon[k][2]) > thr
          THEN LET hour_idx ==
                       CHOOSE p \in DOMAIN hourly_carbon :
                           /\ hourly_carbon[p][2] = hourly_carbon[k][2]
                           /\ \A q \in 1..(p - 1) :
                                  hourly_carbon[q][2] # hourly_carbon[k][2]
                   hourly_load == day[hourly_carbon[hour_idx][1]].dc
               IN  (hourly_load * ratio) \div 100
          ELSE 0)
         + grid_hybrid_exp_movable(thr, k + 1)

\* hybrid_cas_grid_mix, refinement: the load of the hours above mid.
RECURSIVE grid_hybrid_movable(_, _)
grid_hybrid_movable(mid, k) ==
    IF k > Len(hourly_carbon) THEN 0
    ELSE (IF PowerMW(hourly_carbon[k][2]) > mid
          THEN (day[hourly_carbon[k][1]].dc * ratio) \div 100 ELSE 0)
         + grid_hybrid_movable(mid, k + 1)

\* The loop over recipient_hours for the donor donor_idx (the same code in
\* cas_hybrid and hybrid_cas_grid_mix).  moved sums the amounts.
RECURSIVE hybrid_recipients(_, _, _)
hybrid_recipients(st, donor_idx, k) ==
    IF k > Len(st.recipient_hours) THEN st
    ELSE LET recipient_idx == st.recipient_hours[k][1]
             capacity == st.recipient_hours[k][2]
             amount_to_move == Min(st.movable, capacity)
             pos == IndexOf(st.recipient_hours, <<recipient_idx, capacity>>)
             nxt == [dc |-> MoveWorkload(st.dc, donor_idx, recipient_idx,
                                         amount_to_move),
                     movable |-> st.movable - amount_to_move,
                     recipient_hours |->
                         [st.recipient_hours EXCEPT
                              ![pos] = <<recipient_idx,
                                         capacity - amount_to_move>>],
                     moved |-> st.moved + amount_to_move]
         IN  IF capacity <= 0 \/ amount_to_move <= 0
             THEN hybrid_recipients(st, donor_idx, k + 1)
             ELSE IF nxt.movable <= 0
                  THEN nxt
                  ELSE hybrid_recipients(nxt, donor_idx, k + 1)

\* A variant of cas_hybrid_donors in which a donor may give its whole
\* surplus, whatever its share of flexible workload.
RECURSIVE cas_hybrid_donors_NoAllowance(_, _, _)
cas_hybrid_donors_NoAllowance(st, donor_hours, k) ==
    IF k > Len(donor_hours) THEN st
    ELSE LET r == hybrid_recipients(
                      [dc |-> st.dc, movable |-> donor_hours[k][2],
                       recipient_hours |-> st.recipient_hours,
                       moved |-> st.moved],
                      donor_hours[k][1], 1)
         IN  cas_hybrid_donors_NoAllowance(
                 [dc |-> r.dc, recipient_hours |-> r.recipient_hours,
                  moved |-> r.moved],
                 donor_hours, k + 1)

\* cas_hybrid: the loop over donor_hours, a list of (hour, surplus).
RECURSIVE cas_hybrid_donors(_, _, _)
cas_hybrid_donors(st, donor_hours, k) ==
    IF k > Len(donor_hours) THEN st
    ELSE LET donor_idx == donor_hours[k][1]
             surplus == donor_hours[k][2]
             movable == Min(surplus, (ratio * st.dc[donor_idx]) \div 100)
             r == hybrid_recipients(
                      [dc |-> st.dc, movable |-> movable,
                       recipient_hours |-> st.recipient_hours,
                       moved |-> st.moved],
                      donor_idx, 1)
         IN  IF movable <= 0
             THEN cas_hybrid_donors(st, donor_hours, k + 1)
             ELSE cas_hybrid_donors(
                      [dc |-> r.dc, recipient_hours |-> r.recipient_hours,
                       moved |-> r.moved],
                      donor_hours, k + 1)

\* cas_hybrid: donors and recipients of final_threshold and the pour.
cas_hybrid_pour(final) ==
    LET hours == [j \in DOMAIN day |-> j]
        donors == SelectSeq(hours, LAMBDA j : Deficit(j) > final)
        donor_hours ==
            SortDesc([p \in DOMAIN donors |->
                         <<donors[p], Deficit(donors[p]) - final>>])
        Capacity(j) == Min(day[j].ren - day[j].dc, max_capacity - day[j].dc)
        recipients ==
            SelectSeq(hours, LAMBDA j : ~(Deficit(j) > final)
                                        /\ Capacity(j) > 0)
        recipient_hours ==
            SortDesc([p \in DOMAIN recipients |->
                         <<recipients[p], Capacity(recipients[p])>>])
    IN  cas_hybrid_donors(
            [dc |-> Demand(day), recipient_hours |-> recipient_hours,
             moved |-> 0],
            donor_hours, 1)

\* hybrid_cas_grid_mix: the loop over donor_hours.
RECURSIVE grid_hybrid_donors(_, _, _)
grid_hybrid_donors(st, donor_hours, k) ==
    IF k > Len(donor_hours) THEN st
    ELSE LET donor_idx == donor_hours[k][1]
             movable == (ratio * st.dc[donor_idx]) \div 100
             r == hybrid_recipients(
                      [dc |-> st.dc, movable |-> movable,
                       recipient_hours |-> st.recipient_hours,
                       moved |-> st.moved],
                      donor_idx, 1)
         IN  IF movable <= 0
             THEN grid_hybrid_donors(st, donor_hours, k + 1)
             ELSE grid_hybrid_donors(
                      [dc |-> r.dc, recipient_hours |-> r.recipient_hours,
                       moved |-> r.moved],
                      donor_hours, k + 1)

\* hybrid_cas_grid_mix: donors and recipients of final_threshold and the
\* pour.  Recipients are sorted by ascending intensity, the capacity stays
\* the second component.
grid_hybrid_pour(final) ==
    LET hours == [j \in DOMAIN day |-> j]
        donors == SelectSeq(hours, LAMBDA j : PowerMW(day[j].ci) > final)
        donor_hours ==
            SortDesc([p \in DOMAIN donors |-> <<donors[p], day[donors[p]].ci>>])
        recipients ==
            SelectSeq(hours, LAMBDA j : ~(PowerMW(day[j].ci) > final)
                                        /\ max_capacity - day[j].dc > 0)
        by_intensity ==
            Indices(SortAsc([p \in DOMAIN recipients |->
                                <<recipients[p], day[recipients[p]].ci>>]))
        recipient_hours ==
            [p \in DOMAIN by_intensity |->
                <<by_intensity[p], max_capacity - day[by_intensity[p]].dc>>]
    IN  grid_hybrid_donors(
            [dc |-> Demand(day), recipient_hours |-> recipient_hours,
             moved |-> 0],
            donor_hours, 1)

\* Day windows, flexible shares and ceilings of the scheduling runs.
Slot(dc, ren, ci) == [dc |-> PowerMW(dc), ren |-> PowerMW(ren), ci |-> ci]

RenewableSlots == { Slot(4, 0, 0), Slot(1, 6, 0), Slot(2, 3, 0), Slot(6, 4, 0) }

GridSlots == { Slot(4, 0, 8), Slot(1, 0, 1), Slot(2, 0, 3), Slot(6, 0, 3) }

Ratios == { 0, 25, 100 }

\* Windows with a demand of a tenth of a MW, and the flexible share they are
\* run with.
FineSlots ==
    { Slot(4, 0, 0), Slot(7, 0, 0), [dc |-> Tenth, ren |-> PowerMW(6), ci |-> 0] }

FineRatio == 2 * 10

Ceilings == { PowerMW(2), PowerMW(5), PowerMW(8) }

RenewableMethods == { "cas_binary", "cas_hybrid" }

GridMethods == { "binary_cas_grid_mix", "hybrid_cas_grid_mix" }

\* A call of one of the four functions on one day window.
CasInit ==
    /\ method \in RenewableMethods \cup GridMethods
    /\ write_through \in BOOLEAN
    /\ \/ /\ day \in [1..DayLen -> IF method \in RenewableMethods
                                   THEN RenewableSlots ELSE GridSlots]
          /\ ratio \in Ratios
       \/ /\ method \in RenewableMethods
          /\ day \in [1..DayLen -> FineSlots]
          /\ ratio = FineRatio
    /\ max_capacity \in Ceilings
    /\ cpc = "start"
    /\ left = 0 /\ right = 0
    /\ threshold = 0 /\ prev_threshold = 0 /\ final_threshold = 0 /\ round = 0
    /\ test_df = <<>> /\ best_df = <<>> /\ best_carbon_reduction = 0
    /\ moved = 0 /\ out = <<>> /\ tried = <<>>
    /\ CapParked
    /\ BatParked
    /\ ApplyParked
    /\ RleParked

CasFixed == <<method, write_through, day, ratio, max_capacity>>

\* cas_binary: the bounds of the search.
CasBinaryStart ==
    /\ method = "cas_binary" /\ cpc = "start"
    /\ left' = 0
    /\ right' = max_deficit
    /\ cpc' = "loop"
    /\ UNCHANGED <<CasFixed, tried, threshold, prev_threshold, final_threshold,
                   round, test_df, best_df, best_carbon_reduction, moved, out>>
    /\ UNCHANGED notCasVars

\* cas_binary: one iteration of "while left <= right".
CasBinaryTrial ==
    /\ method = "cas_binary" /\ cpc = "loop"
    /\ left <= right
    /\ LET mid == (left + right) \div 2
           r == cas_binary_trial(mid)
       IN  /\ test_df' = r.dc
           /\ moved' = r.moved
           /\ tried' = Append(tried, [mid |-> mid, moved |-> r.moved])
           /\ IF Accepted(r.moved)
              THEN left' = mid + Tenth /\ right' = right
              ELSE right' = mid - Tenth /\ left' = left
    /\ UNCHANGED <<CasFixed, cpc, threshold, prev_threshold, final_threshold,
                   round, best_df, best_carbon_reduction, out>>
    /\ UNCHANGED notCasVars

\* cas_binary: balanced_df.append(test_df).
CasBinaryAppend ==
    /\ method = "cas_binary" /\ cpc = "loop"
    /\ ~(left <= right)
    /\ out' = test_df
    /\ cpc' = "done"
    /\ UNCHANGED <<CasFixed, tried, left, right, threshold, prev_threshold,
                   final_threshold, round, test_df, best_df,
                   best_carbon_reduction, moved>>
    /\ UNCHANGED notCasVars

\* binary_cas_grid_mix: the bounds of the search and best_df.
GridBinaryStart ==
    /\ method = "binary_cas_grid_mix" /\ cpc = "start"
    /\ left' = 0
    /\ right' = PowerMW(max_carbon - min_carbon)
    /\ best_df' = Demand(day)
    /\ best_carbon_reduction' = 0
    /\ cpc' = "loop"
    /\ UNCHANGED <<CasFixed, tried, threshold, prev_threshold, final_threshold,
                   round, test_df, moved, out>>
    /\ UNCHANGED notCasVars

\* binary_cas_grid_mix: one iteration of "while right - left > 0.1".
GridBinaryTrial ==
    /\ method = "binary_cas_grid_mix" /\ cpc = "loop"
    /\ right - left > Tenth
    /\ LET mid == (left + right) \div 2
           r == grid_binary_trial(mid)
       IN  /\ test_df' = r.dc
           /\ moved' = r.moved
           /\ tried' = Append(tried, [mid |-> mid, moved |-> r.moved])
           /\ IF r.carbon_reduced > best_carbon_reduction
              THEN /\ best_df' = r.dc
                   /\ best_carbon_reduction' = r.carbon_reduced
              ELSE UNCHANGED <<best_df, best_carbon_reduction>>
           /\ IF Accepted(r.moved)
              THEN left' = mid /\ right' = right
              ELSE right' = mid /\ left' = left
    /\ UNCHANGED <<CasFixed, cpc, threshold, prev_threshold, final_threshold,
                   round, out>>
    /\ UNCHANGED notCasVars

\* binary_cas_grid_mix: balanced_df.append(best_df).
GridBinaryAppend ==
    /\ method = "binary_cas_grid_mix" /\ cpc = "loop"
    /\ ~(right - left > Tenth)
    /\ out' = best_df
    /\ cpc' = "done"
    /\ UNCHANGED <<CasFixed, tried, left, right, threshold, prev_threshold,
                   final_threshold, round, test_df, best_df,
                   best_carbon_reduction, moved>>
    /\ UNCHANGED notCasVars

\* cas_hybrid: threshold = 0.1, prev_threshold = 0.
CasHybridStart ==
    /\ method = "cas_hybrid" /\ cpc = "start"
    /\ threshold' = Tenth
    /\ prev_threshold' = 0
    /\ cpc' = "exp"
    /\ UNCHANGED <<CasFixed, tried, left, right, final_threshold, round, test_df,
                   best_df, best_carbon_reduction, moved, out>>
    /\ UNCHANGED notCasVars

\* cas_hybrid: one doubling of "while threshold < max_deficit".
CasHybridExp ==
    /\ method = "cas_hybrid" /\ cpc = "exp"
    /\ threshold < max_deficit
    /\ ~(cas_hybrid_movable(threshold, 1) < total_movable)
    /\ prev_threshold' = threshold
    /\ threshold' = threshold * 2
    /\ UNCHANGED <<CasFixed, tried, cpc, left, right, final_threshold, round,
                   test_df, best_df, best_carbon_reduction, moved, out>>
    /\ UNCHANGED notCasVars

\* cas_hybrid: the loop ends or breaks; left, right and final_threshold of
\* the refinement.
CasHybridBounds ==
    /\ method = "cas_hybrid" /\ cpc = "exp"
    /\ \/ ~(threshold < max_deficit)
       \/ cas_hybrid_movable(threshold, 1) < total_movable
    /\ left' = prev_threshold
    /\ right' = threshold
    /\ final_threshold' = 0
    /\ round' = 0
    /\ cpc' = "refine"
    /\ UNCHANGED <<CasFixed, tried, threshold, prev_threshold, test_df, best_df,
                   best_carbon_reduction, moved, out>>
    /\ UNCHANGED notCasVars

\* cas_hybrid: one of the refinement steps.
CasHybridRefine ==
    /\ method = "cas_hybrid" /\ cpc = "refine"
    /\ round < RefineRounds
    /\ LET mid == (left + right) \div 2
       IN  IF cas_hybrid_movable(mid, 1) > total_movable
           THEN left' = mid /\ UNCHANGED <<right, final_threshold>>
           ELSE final_threshold' = mid /\ right' = mid /\ left' = left
    /\ round' = round + 1
    /\ UNCHANGED <<CasFixed, tried, cpc, threshold, prev_threshold, test_df, best_df,
                   best_carbon_reduction, moved, out>>
    /\ UNCHANGED notCasVars

\* cas_hybrid: the pour and balanced_df.append(balanced_day_df).
CasHybridPour ==
    /\ method = "cas_hybrid" /\ cpc = "refine"
    /\ round = RefineRounds
    /\ LET r == cas_hybrid_pour(final_threshold)
       IN  /\ out' = r.dc
           /\ moved' = r.moved
    /\ cpc' = "done"
    /\ UNCHANGED <<CasFixed, tried, left, right, threshold, prev_threshold,
                   final_threshold, round, test_df, best_df,
                   best_carbon_reduction>>
    /\ UNCHANGED notCasVars

\* hybrid_cas_grid_mix: the first threshold, a tenth of the way from
\* min_carbon to max_carbon.
GridHybridStart ==
    /\ method = "hybrid_cas_grid_mix" /\ cpc = "start"
    /\ threshold' = PowerMW(min_carbon) + (max_carbon - min_carbon) * Tenth
    /\ prev_threshold' = PowerMW(min_carbon)
    /\ cpc' = "exp"
    /\ UNCHANGED <<CasFixed, tried, left, right, final_threshold, round, test_df,
                   best_df, best_carbon_reduction, moved, out>>
    /\ UNCHANGED notCasVars

\* hybrid_cas_grid_mix: one doubling of "while threshold < max_carbon".
GridHybridExp ==
    /\ method = "hybrid_cas_grid_mix" /\ cpc = "exp"
    /\ threshold < PowerMW(max_carbon)
    /\ ~(grid_hybrid_exp_movable(threshold, 1) < total_movable)
    /\ prev_threshold' = threshold
    /\ threshold' = PowerMW(min_carbon) + (threshold - PowerMW(min_carbon)) * 2
    /\ UNCHANGED <<CasFixed, tried, cpc, left, right, final_threshold, round,
                   test_df, best_df, best_carbon_reduction, moved, out>>
    /\ UNCHANGED notCasVars

\* hybrid_cas_grid_mix: the loop ends or breaks.
GridHybridBounds ==
    /\ method = "hybrid_cas_grid_mix" /\ cpc = "exp"
    /\ \/ ~(threshold < PowerMW(max_carbon))
       \/ grid_hybrid_exp_movable(threshold, 1) < total_movable
    /\ left' = prev_threshold
    /\ right' = threshold
    /\ final_threshold' = 0
    /\ round' = 0
    /\ cpc' = "refine"
    /\ UNCHANGED <<CasFixed, tried, threshold, prev_threshold, test_df, best_df,
                   best_carbon_reduction, moved, out>>
    /\ UNCHANGED notCasVars

\* hybrid_cas_grid_mix: one of the refinement steps.
GridHybridRefine ==
    /\ method = "hybrid_cas_grid_mix" /\ cpc = "refine"
    /\ round < RefineRounds
    /\ LET mid == (left + right) \div 2
       IN  IF grid_hybrid_movable(mid, 1) > total_movable
           THEN left' = mid /\ UNCHANGED <<right, final_threshold>>
           ELSE final_threshold' = mid /\ right' = mid /\ left' = left
    /\ round' = round + 1
    /\ UNCHANGED <<CasFixed, tried, cpc, threshold, prev_threshold, test_df, best_df,
                   best_carbon_reduction, moved, out>>
    /\ UNCHANGED notCasVars

\* hybrid_cas_grid_mix: the pour and balanced_df.append(balanced_day_df).
GridHybridPour ==
    /\ method = "hybrid_cas_grid_mix" /\ cpc = "refine"
    /\ round = RefineRounds
    /\ LET r == grid_hybrid_pour(final_threshold)
       IN  /\ out' = r.dc
           /\ moved' = r.moved
    /\ cpc' = "done"
    /\ UNCHANGED <<CasFixed, tried, left, right, threshold, prev_threshold,
                   final_threshold, round, test_df, best_df,
                   best_carbon_reduction>>
    /\ UNCHANGED notCasVars

CasNext ==
    \/ CasBinaryStart \/ CasBinaryTrial \/ CasBinaryAppend
    \/ GridBinaryStart \/ GridBinaryTrial \/ GridBinaryAppend
    \/ CasHybridStart \/ CasHybridExp \/ CasHybridBounds
    \/ CasHybridRefine \/ CasHybridPour
    \/ GridHybridStart \/ GridHybridExp \/ GridHybridBounds
    \/ GridHybridRefine \/ GridHybridPour

CasSpec == CasInit /\ [][CasNext]_vars

\* Every halving of the scheduling searches is exact in model units, and
\* so is every share ratio / 100 of a demand.
CasExact ==
    /\ (cpc = "loop" /\ method = "cas_binary" /\ left <= right)
          => (left + right) % 2 = 0
    /\ (cpc = "loop" /\ method = "binary_cas_grid_mix" /\ right - left > Tenth)
          => (left + right) % 2 = 0
    /\ (cpc = "refine" /\ round < RefineRounds) => (left + right) % 2 = 0
    /\ cpc # "parked" =>
          \A j \in DOMAIN day : (day[j].dc * ratio) % 100 = 0

----------------------------------------------------------------------------

----------------------------------------------------------------------------
(* battery_utils.py: apply_battery.  Power is counted in units of 1/PerMWh
   MW and energy in units of 1/PerMWh MWh, as for Battery2. *)

ApplyMW(n) == n * PerMWh

\* Hours of the series passed to apply_battery.
ApplyHours == 2

\* (demand, renewable) of an hour, in MW: two deficits of 15, a surplus of
\* 60 and an hour in balance.  The share per step of each gap is a whole
\* number of units.
ApplySamples ==
    { [dc |-> ApplyMW(15), ren |-> 0], [dc |-> ApplyMW(30), ren |-> ApplyMW(15)],
      [dc |-> 0, ren |-> ApplyMW(60)], [dc |-> 0, ren |-> 0] }

\* Traces with one hour of a deficit of 1 MW, whose share per step is not a
\* whole number of units, and the other hours in balance.
ShortfallTraces ==
    { [k \in 1..ApplyHours |->
          IF k = h THEN [dc |-> ApplyMW(1), ren |-> 0] ELSE [dc |-> 0, ren |-> 0]] :
      h \in 1..ApplyHours }

ApplyCapacities == { 0, ApplyMW(10), ApplyMW(20) }

\* A call apply_battery(battery_capacity, df_ren, df_dc_pow).
ApplyInit ==
    /\ ab_pc = "start"
    /\ battery_capacity \in ApplyCapacities
    /\ \E tr \in [1..ApplyHours -> ApplySamples] \cup ShortfallTraces :
          /\ df_dc_pow = [k \in 1..ApplyHours |-> tr[k].dc]
          /\ df_ren = [k \in 1..ApplyHours |-> tr[k].ren]
          /\ ren_before = [k \in 1..ApplyHours |-> tr[k].ren]
    /\ ab_b = [capacity |-> 0, current_load |-> 0]
    /\ ab_i = 0 /\ ab_j = 0 /\ gap = 0
    /\ discharged_amount = 0 /\ tot_non_ren_mw = 0
    /\ hours_done = <<>> /\ ab_ret = <<>>
    /\ CapParked
    /\ BatParked
    /\ CasParked
    /\ RleParked

ApplyArgs == <<battery_capacity, df_dc_pow, ren_before>>

\* b = Battery2(battery_capacity, battery_capacity); tot_non_ren_mw = 0
ApplyStart ==
    /\ ab_pc = "start"
    /\ ab_b' = Battery2(battery_capacity, battery_capacity)
    /\ tot_non_ren_mw' = 0
    /\ ab_i' = 1
    /\ ab_pc' = "hour"
    /\ UNCHANGED <<ApplyArgs, df_ren, ab_j, gap, discharged_amount, hours_done,
                   ab_ret>>
    /\ UNCHANGED notApplyVars

\* The head of "for i in range(df_dc_pow.shape[0])": gap of hour i.
ApplyHourBegin ==
    /\ ab_pc = "hour"
    /\ ab_i <= Len(df_dc_pow)
    /\ gap' = df_dc_pow[ab_i] - df_ren[ab_i]
    /\ discharged_amount' = 0
    /\ ab_j' = 0
    /\ ab_pc' = "micro"
    /\ UNCHANGED <<ApplyArgs, df_ren, ab_b, ab_i, tot_non_ren_mw, hours_done,
                   ab_ret>>
    /\ UNCHANGED notApplyVars

\* One iteration of "for j in range(points_per_hour)" with gap > 0.
ApplyDischarge ==
    /\ ab_pc = "micro"
    /\ ab_j < points_per_hour
    /\ gap > 0
    /\ \E r \in discharge2(ab_b, gap, points_per_hour) :
          /\ ab_b' = r.bat
          /\ discharged_amount' = discharged_amount + r.ret
    /\ ab_j' = ab_j + 1
    /\ UNCHANGED <<ApplyArgs, df_ren, ab_pc, ab_i, gap, tot_non_ren_mw,
                   hours_done, ab_ret>>
    /\ UNCHANGED notApplyVars

\* One iteration of "for j in range(points_per_hour)" with gap <= 0:
\* b.charge(-gap, 1 / points_per_hour) and
\* df_ren.iloc[i] += gap * (1 / points_per_hour) on the series passed in.
ApplyCharge ==
    /\ ab_pc = "micro"
    /\ ab_j < points_per_hour
    /\ ~(gap > 0)
    /\ \E nb \in charge2(ab_b, -gap, points_per_hour) : ab_b' = nb
    /\ \E d \in Rounded(Frac(gap, points_per_hour)) :
          df_ren' = [df_ren EXCEPT ![ab_i] = @ + d]
    /\ ab_j' = ab_j + 1
    /\ UNCHANGED <<ApplyArgs, ab_pc, ab_i, gap, discharged_amount,
                   tot_non_ren_mw, hours_done, ab_ret>>
    /\ UNCHANGED notApplyVars

\* After the inner loop: with gap > 0 the unmet part is added to
\* tot_non_ren_mw and the discharged amount to df_ren.iloc[i].
ApplyHourEnd ==
    /\ ab_pc = "micro"
    /\ ab_j = points_per_hour
    /\ IF gap > 0
       THEN /\ tot_non_ren_mw' = tot_non_ren_mw + gap - discharged_amount
            /\ df_ren' = [df_ren EXCEPT ![ab_i] = @ + discharged_amount]
       ELSE UNCHANGED <<tot_non_ren_mw, df_ren>>
    /\ hours_done' = Append(hours_done,
                            [gap |-> gap, delivered |-> discharged_amount])
    /\ ab_i' = ab_i + 1
    /\ ab_pc' = "hour"
    /\ UNCHANGED <<ApplyArgs, ab_b, ab_j, gap, discharged_amount, ab_ret>>
    /\ UNCHANGED notApplyVars

\* return tot_non_ren_mw, df_ren: the series returned is the object passed in.
ApplyReturn ==
    /\ ab_pc = "hour"
    /\ ~(ab_i <= Len(df_dc_pow))
    /\ ab_ret' = <<tot_non_ren_mw, df_ren>>
    /\ ab_pc' = "done"
    /\ UNCHANGED <<ApplyArgs, df_ren, ab_b, ab_i, ab_j, gap, discharged_amount,
                   tot_non_ren_mw, hours_done>>
    /\ UNCHANGED notApplyVars

ApplyNext ==
    \/ ApplyStart \/ ApplyHourBegin \/ ApplyDischarge \/ ApplyCharge
    \/ ApplyHourEnd \/ ApplyReturn

ApplySpec == ApplyInit /\ [][ApplyNext]_vars

\* The share gap / points_per_hour of every hour without a deficit is a whole
\* number of units.
ApplyExact == (ab_pc = "micro" /\ ~(gap > 0)) => gap % points_per_hour = 0

----------------------------------------------------------------------------
(* battery.py: a Battery2 built with coefficients of the caller's choice,
   then charged, discharged or grown.  Coefficients are in hundredths, the
   two v coefficients in whole units. *)

\* Coefficient sets a caller may pass to Battery2(...): the defaults,
\* upper_u = 0.04, eff_c = 0.6 with upper_u = 0.01, lower_u = -0.04,
\* eff_d = 1.2 with lower_u = -0.02, lower_v = 1, lower_u = -2.0 and
\* lower_u = -1.04.
Coefficients ==
    { Battery2(0, 0),
      [Battery2(0, 0) EXCEPT !.upper_lim_u = 4],
      [Battery2(0, 0) EXCEPT !.eff_c = 60, !.upper_lim_u = 1],
      [Battery2(0, 0) EXCEPT !.lower_lim_u = -4],
      [Battery2(0, 0) EXCEPT !.eff_d = 120, !.lower_lim_u = -2],
      [Battery2(0, 0) EXCEPT !.lower_lim_v = 1],
      [Battery2(0, 0) EXCEPT !.lower_lim_u = -200],
      [Battery2(0, 0) EXCEPT !.lower_lim_u = -104] }

\* The capacity and current_load passed to Battery2(...).
RleSizes == { <<0, 0>>, <<PerMWh, 0>>, <<PerMWh, PerMWh \div 2>>,
              <<PerMWh, PerMWh>> }

\* The loads passed to charge and discharge, and the amount passed to
\* find_and_init_capacity.
RleLoads == { PerMWh \div 2, PerMWh * 6 }
RleInputs == { PerMWh }

\* The number of charge and discharge calls followed.
MaxCalls == 2

\* A float no longer changes when 0.1 is added to it once it is large
\* enough; Absorb stands for that magnitude.
Absorb == 4 * PerMWh

\* x += 0.1 in floating point.
GrowAdd(x) == IF x >= Absorb THEN x ELSE x + Increment

\* (self.eff_c * T_u) - self.upper_lim_u, times 100 * t_den.
ChargeDen(bt, t_den) == bt.eff_c - bt.upper_lim_u * t_den

\* self.lower_lim_u + (self.eff_d * T_u), times 100 * t_den.
DischargeDen(bt, t_den) == bt.lower_lim_u * t_den + bt.eff_d

\* self.lower_lim_u + self.eff_d, times 100.
GrowDen(bt) == bt.lower_lim_u + bt.eff_d

\* new_capacity - self.lower_lim_v * self.capacity
GrowNum(bt, nc) == nc - bt.lower_lim_v * bt.capacity

\* power_lim of find_and_init_capacity, for a denominator other than 0.
power_lim(bt, nc) == Norm(Frac(GrowNum(bt, nc) * 100, GrowDen(bt)))

\* power_lim < input_load.  Dividing a numpy float by 0.0 gives inf, -inf or
\* nan, of which only -inf is below the amount.
GrowShort(bt, nc, input_load) ==
    IF GrowDen(bt) = 0
    THEN GrowNum(bt, nc) < 0
    ELSE FracLess(power_lim(bt, nc), Frac(input_load, 1))

RleInit ==
    /\ rle_pc = "new"
    /\ \E k \in Coefficients, sz \in RleSizes :
          rle_args = [k EXCEPT !.capacity = sz[1], !.current_load = sz[2]]
    /\ rle_b = Battery2(0, 0)
    /\ rle_input = 0 /\ rle_new_capacity = 0 /\ rle_calls = 0
    /\ rle_last = NoLimit
    /\ CapParked
    /\ BatParked
    /\ CasParked
    /\ ApplyParked

\* Battery2.__init__: every argument is stored as it is given.
RleConstruct ==
    /\ rle_pc = "new"
    /\ rle_b' = rle_args
    /\ rle_pc' = "ready"
    /\ UNCHANGED <<rle_args, rle_input, rle_new_capacity, rle_calls, rle_last,
                   notRleVars>>

\* b.charge(load, 1 / points_per_hour).  With a denominator of 0 the division
\* of Python floats raises ZeroDivisionError and the division of a numpy
\* float gives a limit of inf, -inf or nan, which the call goes on to use.
RleCharge ==
    /\ rle_pc = "ready"
    /\ rle_calls < MaxCalls
    /\ rle_calls' = rle_calls + 1
    /\ \E load \in RleLoads :
          LET den == ChargeDen(rle_b, points_per_hour)
          IN  IF den = 0
              THEN /\ rle_pc' \in {"ZeroDivisionError", "nonfinite"}
                   /\ rle_last' = IF rle_pc' = "nonfinite"
                                  THEN [op |-> "charge", den |-> den,
                                        limit |-> 0]
                                  ELSE rle_last
                   /\ UNCHANGED rle_b
              ELSE /\ rle_b' \in charge2(rle_b, load, points_per_hour)
                   /\ rle_last' =
                        [op |-> "charge", den |-> den,
                         limit |-> Floor(calc_max_charge(rle_b,
                                                         points_per_hour))]
                   /\ UNCHANGED rle_pc
    /\ UNCHANGED <<rle_args, rle_input, rle_new_capacity, notRleVars>>

\* b.discharge(load, 1 / points_per_hour), with the same two outcomes of a
\* denominator of 0.
RleDischarge ==
    /\ rle_pc = "ready"
    /\ rle_calls < MaxCalls
    /\ rle_calls' = rle_calls + 1
    /\ \E load \in RleLoads :
          LET den == DischargeDen(rle_b, points_per_hour)
          IN  IF den = 0
              THEN /\ rle_pc' \in {"ZeroDivisionError", "nonfinite"}
                   /\ rle_last' = IF rle_pc' = "nonfinite"
                                  THEN [op |-> "discharge", den |-> den,
                                        limit |-> 0]
                                  ELSE rle_last
                   /\ UNCHANGED rle_b
              ELSE /\ \E r \in discharge2(rle_b, load, points_per_hour) :
                         rle_b' = r.bat
                   /\ rle_last' =
                        [op |-> "discharge", den |-> den,
                         limit |-> Floor(calc_max_discharge(rle_b,
                                                            points_per_hour))]
                   /\ UNCHANGED rle_pc
    /\ UNCHANGED <<rle_args, rle_input, rle_new_capacity, notRleVars>>

\* find_and_init_capacity, up to the loop:
\*   self.capacity = self.capacity + input_load * self.eff_d
\*   new_capacity = input_load * self.eff_d
RleGrowStart ==
    /\ rle_pc = "ready"
    /\ \E input_load \in RleInputs :
       \E g \in Rounded(Frac(input_load * rle_b.eff_d, 100)) :
          /\ rle_input' = input_load
          /\ rle_b' = [rle_b EXCEPT !.capacity = @ + g]
          /\ rle_new_capacity' = g
    /\ rle_pc' = "growing"
    /\ UNCHANGED <<rle_args, rle_calls, rle_last, notRleVars>>

\* The division by a denominator of 0 raises when the operands are Python
\* floats.
RleGrowRaise ==
    /\ rle_pc = "growing"
    /\ GrowDen(rle_b) = 0
    /\ rle_pc' = "ZeroDivisionError"
    /\ UNCHANGED <<rle_args, rle_b, rle_input, rle_new_capacity, rle_calls,
                   rle_last, notRleVars>>

\* One turn of the loop with power_lim < input_load:
\*   self.capacity += 0.1; new_capacity += 0.1
RleGrowStep ==
    /\ rle_pc = "growing"
    /\ GrowShort(rle_b, rle_new_capacity, rle_input)
    /\ rle_b' = [rle_b EXCEPT !.capacity = GrowAdd(@)]
    /\ rle_new_capacity' = GrowAdd(rle_new_capacity)
    /\ UNCHANGED <<rle_pc, rle_args, rle_input, rle_calls, rle_last,
                   notRleVars>>

\* The turn of the loop that takes the break.
RleGrowExit ==
    /\ rle_pc = "growing"
    /\ ~GrowShort(rle_b, rle_new_capacity, rle_input)
    /\ rle_pc' = "grown"
    /\ UNCHANGED <<rle_args, rle_b, rle_input, rle_new_capacity, rle_calls,
                   rle_last, notRleVars>>

RleNext ==
    \/ RleConstruct \/ RleCharge \/ RleDischarge
    \/ RleGrowStart \/ RleGrowRaise \/ RleGrowStep \/ RleGrowExit

RleSpec == RleInit /\ [][RleNext]_vars

\* The interpreter runs the loop of find_and_init_capacity on: a turn that
\* can be taken is taken.
RleLive ==
    /\ RleSpec
    /\ WF_vars(RleGrowRaise) /\ WF_vars(RleGrowStep) /\ WF_vars(RleGrowExit)

CapSpec == CapInit /\ [][CapNext]_vars

BatSpec == BatInit /\ [][BatNext]_vars

\* Every halving of the two bisections is exact in model units.
ExactHalving ==
    /\ (pc = "bin_loop" /\ u - l > Resolution) => (u + l) % 2 = 0
    /\ (pc = "hyb_bin" /\ upper_bound - lower_bound > Resolution)
          => (lower_bound + upper_bound) % 2 = 0

Spec == CapSpec

----------------------------------------------------------------------------
(* Properties of the capacity sizing *)

\* Largest whole-MWh capacity of the probe grid.
MaxCapMW == 8

\* Capacities on which the oracle is probed: whole MWh up to MaxCapMW, the
\* capacity one model unit below each, one model unit, and the thresholds of
\* the enumerated traces and of Scenario B with their neighbours.
CapGrid ==
    {MW(n) : n \in 0..MaxCapMW} \cup {MW(n) - 1 : n \in 1..MaxCapMW}
      \cup {1, MW(59), MW(61) - 2, MW(61) - 1, MW(61), MW(121) - 1, MW(121),
            MW(200), MW(600), MW(33050) - 2, MW(33050) - 1, MW(33050), MW(40000)}

\* x <= 0.1 MWh, for an integer x of model units (Scale/10 is not an integer).
WithinResolution(x) == x <= Scale \div 10

\* A search returned the number x > 0 and left lo as its last rejected bound.
Brackets(x, lo) ==
    /\ Feasible(trace, x)
    /\ ~Feasible(trace, lo)
    /\ lo < x
    /\ WithinResolution(x - lo)
    /\ \A c \in {0, x \div 2, x - Resolution - 1} : c >= 0 => ~Feasible(trace, c)

\* C1: whenever binary or hybrid search returns a positive number u, the
\* oracle accepts a fully charged battery of capacity u and rejects one of a
\* capacity l with u - 0.1 <= l < u (the search's last lower bound); the
\* capacities probed at or below u - 0.1 are rejected too.
C1_ResultBracketsThreshold ==
    /\ (res_bin.kind = "num" /\ res_bin.val > 0) => Brackets(res_bin.val, l)
    /\ (res_hyb.kind = "num" /\ res_hyb.val > 0) => Brackets(res_hyb.val, lower_bound)

C1_Witness ==
    /\ pc = "done"
    /\ Len(trace) >= 2
    /\ res_bin.kind = "num" /\ res_bin.val > MW(60)
    /\ res_hyb.kind = "num" /\ res_hyb.val > MW(60)

\* C2: a search that has returned gives a number whenever a capacity in
\* [0, max_bsize] (max_bsize itself) is feasible, and nan whenever max_bsize is
\* infeasible.
C2_NumberIffBoundFeasible ==
    /\ res_bin.kind # "none" =>
          (res_bin.kind = "num" <=> Feasible(trace, max_bsize))
    /\ res_hyb.kind # "none" =>
          (res_hyb.kind = "num" <=> Feasible(trace, max_bsize))

\* C3: on every trace, if the oracle accepts a fully charged battery of
\* capacity c1 it accepts a fully charged battery of every larger capacity c2.
C3_FeasibilityMonotonic ==
    pc = "done" =>
        LET ok == {c \in CapGrid : Feasible(trace, c)}
        IN  \A c1 \in ok : \A c2 \in CapGrid : c2 > c1 => c2 \in ok

C3_Witness ==
    /\ pc = "done"
    /\ Len(trace) = MaxHours
    /\ \E c1, c2 \in CapGrid :
          /\ 0 < c1 /\ c1 < c2
          /\ ~Feasible(trace, c1 - 1) /\ Feasible(trace, c1) /\ Feasible(trace, c2)
    /\ \E k \in 1..Len(trace) : trace[k].ren > trace[k].dc

\* C4: binary and hybrid search agree on number versus nan, and two numbers
\* are within 0.1 of each other.
C4_BinaryHybridAgree ==
    (res_bin.kind # "none" /\ res_hyb.kind # "none") =>
        /\ res_bin.kind = res_hyb.kind
        /\ WithinResolution(res_bin.val - res_hyb.val)
        /\ WithinResolution(res_hyb.val - res_bin.val)

\* C5: when binary and hybrid search return numbers, the sequential result is
\* at least both, and is a capacity the oracle accepts.
C5_SequentialSufficient ==
    (pc = "done" /\ res_bin.kind = "num" /\ res_hyb.kind = "num") =>
        /\ res_seq.val >= res_bin.val
        /\ res_seq.val >= res_hyb.val
        /\ Feasible(trace, res_seq.val)

\* C6: on Scenario B with a bound that does not bind, binary search returns a
\* capacity within 0.1 of 600 MWh.
C6_ScenarioB ==
    (trace = ScenarioB /\ max_bsize = MW(40000) /\ res_bin.kind # "none") =>
        /\ res_bin.kind = "num"
        /\ WithinResolution(res_bin.val - MW(600))
        /\ WithinResolution(MW(600) - res_bin.val)

\* C7: on every trace on which the oracle accepts a zero-capacity battery each
\* of the three strategies returns 0.
C7_ZeroFeasibleReturnsZero ==
    (pc = "done" /\ sim_battery_247(trace, Battery(0, 0))) =>
        /\ res_bin = Num(0)
        /\ res_hyb = Num(0)
        /\ res_seq = Num(0)
----------------------------------------------------------------------------
(* Properties of the battery calls *)

\* C8: every state reached from 0 <= current_load <= capacity by charge,
\* discharge and find_and_init_capacity calls with non-negative amounts has
\* 0 <= current_load <= capacity, for a Battery and for a Battery2 with the
\* default coefficients.
C8_LoadWithinCapacity ==
    /\ 0 <= bat1.current_load /\ bat1.current_load <= bat1.capacity
    /\ 0 <= bat2.current_load /\ bat2.current_load <= bat2.capacity

C8_Witness ==
    /\ model = "Battery2"
    /\ call.op = "charge" /\ call.arg = 10 * PerMWh
    /\ bat2.capacity > (5 * PerMWh) \div 2
    /\ bat2.current_load > PerMWh

\* C9: Battery.discharge(x) with x <= current_load returns x and leaves the
\* load reduced by x; with x > current_load it returns the load before the
\* call and leaves the load at 0.
C9_DischargeBoundary ==
    (model = "Battery" /\ call.op = "discharge") =>
        IF call.arg <= call.pre
        THEN call.ret = call.arg /\ bat1.current_load = call.pre - call.arg
        ELSE call.ret = call.pre /\ bat1.current_load = 0

C9_Witness ==
    /\ model = "Battery" /\ call.op = "discharge"
    /\ call.pre > 0 /\ call.arg > call.pre
    /\ call.ret = call.pre

\* C18: in _calculate_247_battery_capacity_b1_seq every hour leaves the
\* capacity of the live battery at least as large as before; an hour with
\* demand above the renewables raises it by exactly
\* max(0, deficit - load before the hour), any other hour leaves it as it
\* was; and the value returned is the capacity reached, the largest of the
\* pass.
C18_SequentialGrowth ==
    [][/\ SeqStep =>
             LET dc == trace[i].dc
                 ren == trace[i].ren
             IN  /\ b'.capacity >= b.capacity
                 /\ dc > ren =>
                       b'.capacity
                           = b.capacity + Max(0, (dc - ren) - b.current_load)
                 /\ ~(dc > ren) => b'.capacity = b.capacity
                 /\ battery_cap' = b'.capacity
       /\ SeqReturn => res_seq' = Num(b.capacity)]_vars

\* The pass after three hours: a deficit of one unit, a surplus that loads
\* the battery, and a deficit of 1 MW of which the battery covers one unit.
C18_Witness ==
    /\ pc = "seq_loop" /\ i = 4
    /\ trace[1] = Sample(1, 0)
    /\ trace[2] = Sample(0, MW(1))
    /\ trace[3] = Sample(MW(1), 0)
    /\ b.capacity = MW(1)
    /\ b.current_load = 0

----------------------------------------------------------------------------
(* Properties of the carbon-aware scheduling *)

\* C10: for every day window, either objective and each of the binary and
\* hybrid searches, the demand column of every trial frame, of best_df and
\* of the frame appended to balanced_df has the same sum as the demand
\* column of daily_df: whatever a pour takes from a donor hour it adds to
\* one recipient hour.
C10_DemandSumConserved ==
    cpc # "parked" =>
        /\ test_df # <<>> => SumSeq(test_df) = SumSeq(Demand(day))
        /\ best_df # <<>> => SumSeq(best_df) = SumSeq(Demand(day))
        /\ cpc = "done" =>
              /\ DOMAIN out = DOMAIN day
              /\ SumSeq(out) = SumSeq(Demand(day))

\* A finished window in which two donor hours gave workload away and a
\* recipient hour took some.
C10_Witness ==
    /\ cpc = "done"
    /\ \E j, k \in DOMAIN out :
          /\ j # k
          /\ out[j] < day[j].dc
          /\ out[k] < day[k].dc
    /\ \E j \in DOMAIN out : out[j] > day[j].dc

\* Every hour of a frame that holds more demand than in daily_df is within
\* the ceiling and, for the renewable functions, within its renewable supply.
RecipientsWithinCeiling(dc) ==
    \A j \in DOMAIN dc :
        dc[j] > day[j].dc =>
            /\ dc[j] <= max_capacity
            /\ method \in RenewableMethods => dc[j] <= day[j].ren

\* C11: in every trial frame, in best_df and in the frame appended to
\* balanced_df, an hour that received workload holds at most max_capacity,
\* also after receiving from several donors, and for the renewable
\* functions at most its renewable supply.
C11_CeilingRespected ==
    cpc # "parked" =>
        /\ RecipientsWithinCeiling(test_df)
        /\ RecipientsWithinCeiling(best_df)
        /\ RecipientsWithinCeiling(out)

\* A finished window in which one hour received from two donors and was
\* filled exactly to the ceiling.
C11_Witness ==
    /\ cpc = "done"
    /\ \E j, k \in DOMAIN out :
          /\ j # k
          /\ out[j] < day[j].dc
          /\ out[k] < day[k].dc
    /\ \E j \in DOMAIN out :
          /\ out[j] > day[j].dc
          /\ out[j] = max_capacity
          /\ \A k \in DOMAIN out : k # j => out[k] <= day[k].dc

\* What the hours of a frame gave away, summed.
RECURSIVE GivenAway(_, _)
GivenAway(dc, k) ==
    IF k > Len(dc) THEN 0
    ELSE Max(0, day[k].dc - dc[k]) + GivenAway(dc, k + 1)

\* No hour of a frame gave away more than ratio percent of its demand in
\* daily_df, and all hours together gave away at most total_movable.
DonorsWithinAllowance(dc) ==
    /\ \A j \in DOMAIN dc : (day[j].dc - dc[j]) * 100 <= ratio * day[j].dc
    /\ GivenAway(dc, 1) <= total_movable

\* C12: in every trial frame, in best_df and in the frame appended to
\* balanced_df, each donor hour lost at most ratio percent of its demand
\* before the call, and the workload moved in the window, counted by the
\* pour and read off the frame, is at most total_movable.
C12_DonorAndTargetBound ==
    cpc # "parked" =>
        /\ DonorsWithinAllowance(test_df)
        /\ DonorsWithinAllowance(best_df)
        /\ DonorsWithinAllowance(out)
        /\ moved <= total_movable

\* A finished window in which one donor gave exactly its allowance and a
\* second donor, short of headroom, gave less than its own.
C12_Witness ==
    /\ cpc = "done"
    /\ moved > 0
    /\ GivenAway(out, 1) = moved
    /\ \E j, k \in DOMAIN out :
          /\ out[j] < day[j].dc
          /\ (day[j].dc - out[j]) * 100 = ratio * day[j].dc
          /\ out[k] < day[k].dc
          /\ (day[k].dc - out[k]) * 100 < ratio * day[k].dc

\* C13: the final_threshold that cas_hybrid and hybrid_cas_grid_mix hand
\* to the pour lies in [prev_threshold, threshold], the interval left by
\* the exponential phase.
C13_FinalThresholdInBracket ==
    (method \in {"cas_hybrid", "hybrid_cas_grid_mix"}
        /\ cpc = "refine" /\ round = RefineRounds) =>
        /\ prev_threshold <= final_threshold
        /\ final_threshold <= threshold

\* C17: the frame cas_binary appends is the frame of the last trial, whose
\* moved volume is the variable moved.  If some trial of the bisection
\* moved at least 95% of total_movable, so did the appended one; otherwise
\* no trial came closer to total_movable than the appended one.
C17_AcceptedCutoffReturned ==
    (method = "cas_binary" /\ cpc = "done") =>
        IF \E k \in DOMAIN tried : Accepted(tried[k].moved)
        THEN Accepted(moved)
        ELSE \A k \in DOMAIN tried :
                 total_movable - moved <= total_movable - tried[k].moved

\* The renewable deficit of a frame, summed over its hours.
RECURSIVE TotalDeficit(_, _)
TotalDeficit(dc, k) ==
    IF k > Len(dc) THEN 0
    ELSE Max(0, dc[k] - day[k].ren) + TotalDeficit(dc, k + 1)

\* Demand times carbon intensity of a frame, summed over its hours.
RECURSIVE TotalCarbon(_, _)
TotalCarbon(dc, k) ==
    IF k > Len(dc) THEN 0
    ELSE dc[k] * day[k].ci + TotalCarbon(dc, k + 1)

\* C20: the frame appended to balanced_df is no worse than daily_df: for
\* cas_binary and cas_hybrid its total renewable deficit is at most that of
\* daily_df, for binary_cas_grid_mix and hybrid_cas_grid_mix its sum of
\* demand times carbon intensity is at most that of daily_df.
C20_ObjectiveNotWorse ==
    cpc = "done" =>
        /\ method \in RenewableMethods =>
              TotalDeficit(out, 1) <= TotalDeficit(Demand(day), 1)
        /\ method \in GridMethods =>
              TotalCarbon(out, 1) <= TotalCarbon(Demand(day), 1)

\* A finished window whose objective value got strictly better.
C20_Witness ==
    /\ cpc = "done"
    /\ out # Demand(day)
    /\ \/ /\ method \in RenewableMethods
          /\ TotalDeficit(out, 1) < TotalDeficit(Demand(day), 1)
       \/ /\ method \in GridMethods
          /\ TotalCarbon(out, 1) < TotalCarbon(Demand(day), 1)

----------------------------------------------------------------------------
(* Properties of apply_battery *)

\* C14: when apply_battery returns, the renewable series the caller passed
\* in holds the values it held at the call.
C14_InputSeriesUnchanged ==
    ab_pc = "done" => df_ren = ren_before

\* The unmet demand of the hours done: over the hours with a deficit, the
\* deficit less the amount the battery delivered.
RECURSIVE UnmetDemand(_, _)
UnmetDemand(h, k) ==
    IF k > Len(h) THEN 0
    ELSE (IF h[k].gap > 0 THEN h[k].gap - h[k].delivered ELSE 0)
         + UnmetDemand(h, k + 1)

\* The deficits of the hours done, summed.
RECURSIVE SumDeficits(_, _)
SumDeficits(h, k) ==
    IF k > Len(h) THEN 0
    ELSE Max(0, h[k].gap) + SumDeficits(h, k + 1)

\* C19: tot_non_ren_mw is the sum, over the deficit hours done, of the
\* deficit less the amount delivered; the amount delivered in an hour is
\* between 0 and that hour's deficit, also while the hour is under way; so
\* the total returned is between 0 and the sum of the deficits.
C19_UnmetDemand ==
    ab_pc \in {"hour", "micro", "done"} =>
        /\ tot_non_ren_mw = UnmetDemand(hours_done, 1)
        /\ \A k \in DOMAIN hours_done :
              hours_done[k].gap > 0 =>
                  /\ 0 <= hours_done[k].delivered
                  /\ hours_done[k].delivered <= hours_done[k].gap
        /\ (ab_pc = "micro" /\ gap > 0) =>
              (0 <= discharged_amount /\ discharged_amount <= gap)
        /\ 0 <= tot_non_ren_mw
        /\ tot_non_ren_mw <= SumDeficits(hours_done, 1)
        /\ ab_pc = "done" => ab_ret[1] = tot_non_ren_mw

----------------------------------------------------------------------------
(* Properties of a Battery2 with any coefficients *)

\* C15: every call of find_and_init_capacity comes to an end, whatever the
\* coefficients and the amount: once in its loop, the call gets out of it,
\* with the capacity grown or with an error (NumericalDegeneracy when the
\* limit cannot be made to deliver the amount).
C15_GrowToFitTerminates ==
    (rle_pc = "growing")
        ~> (rle_pc \in {"grown", "NumericalDegeneracy", "ZeroDivisionError"})

\* A rate-limit denominator of the battery is zero or negative at the step
\* 1 / points_per_hour.
Degenerate(bt) ==
    \/ ChargeDen(bt, points_per_hour) <= 0
    \/ DischargeDen(bt, points_per_hour) <= 0

\* C16: a Battery2 whose coefficients make a rate-limit denominator zero or
\* negative gets no further than its construction, which ends in
\* InvalidConfiguration; and every charge or discharge call made used a
\* limit with a positive denominator.
C16_DegenerateRejected ==
    /\ Degenerate(rle_args) => rle_pc \in {"new", "InvalidConfiguration"}
    /\ rle_last.op # "none" => rle_last.den > 0

====
